---- MODULE Spec2Model ----
(***************************************************************************)
(* MixedRadixEvaluationDomain                                              *)
(* (tachyon/math/polynomials/univariate/mixed_radix_evaluation_domain.h).  *)
(*                                                                         *)
(* Domain sizing (BestMixedDomainSize, ComputeSizeAndFactors,              *)
(* IsValidNumCoeffs, Create), the index permutation MixedRadixFFTPermute,  *)
(* SerialFFT, ParallelFFT, BestFFT and DoFFT / DoIFFT.                     *)
(*                                                                         *)
(* Machine words are Word = 2^W wide: size_t, uint64_t and uint32_t        *)
(* arithmetic of the sizing code wraps modulo Word.  Field elements are    *)
(* the residues 0 .. p-1 of a prime field.                                 *)
(***************************************************************************)
EXTENDS Integers, Sequences, FiniteSets, TLC

\* Width, in bits, of the unsigned machine word of the model.
W == 7

\* Largest two_adicity and q_adicity the permutation is tabulated for.
MaxS == 3

MaxT == 2

\* Largest worker count omp_get_max_threads() reports in the model.
MaxThreads == 4

Word == 2 ^ W

UINT64_MAX == Word - 1

Min(x, y) == IF x <= y THEN x ELSE y

(***************************************************************************)
(* The field F and F::Config.  T is kTwoAdicity, q is kSmallSubgroupBase,  *)
(* A is kSmallSubgroupAdicity, root is kLargeSubgroupRootOfUnity (of       *)
(* multiplicative order q^A * 2^T), has is kHasLargeSubgroupRootOfUnity.   *)
(***************************************************************************)
F7 == [p |-> 7, T |-> 1, q |-> 3, A |-> 1, root |-> 3, has |-> TRUE]

F13 == [p |-> 13, T |-> 2, q |-> 3, A |-> 1, root |-> 2, has |-> TRUE]

F37 == [p |-> 37, T |-> 2, q |-> 3, A |-> 2, root |-> 2, has |-> TRUE]

F73 == [p |-> 73, T |-> 3, q |-> 3, A |-> 1, root |-> 52, has |-> TRUE]

F11 == [p |-> 11, T |-> 1, q |-> 5, A |-> 1, root |-> 2, has |-> TRUE]

F17 == [p |-> 17, T |-> 4, q |-> 3, A |-> 0, root |-> 3, has |-> FALSE]

Fields == {F7, F13, F37, F73, F11, F17}

VARIABLES
  field,        \* the field F the domain is instantiated with
  entry,        \* sizing: "IsValidNumCoeffs" or "Create"
  num_coeffs,   \* sizing: the requested coefficient count
  spc,          \* sizing: position in the sizing code
  i_,           \* BestMixedDomainSize: loop counter i
  r,            \* BestMixedDomainSize: candidate size r
  two_adicity,  \* BestMixedDomainSize: doublings of r
  best,         \* BestMixedDomainSize: best size so far
  size_out,     \* ComputeSizeAndFactors: *size_out
  factors,      \* ComputeSizeAndFactors: *factors
  ret,          \* sizing: value returned by the entry point
  pm_s,         \* permutation: two_adicity
  pm_t,         \* permutation: q_adicity
  pm_q,         \* permutation: q
  pm_n,         \* permutation: n = q^t * 2^s
  pm_img,       \* permutation: images of 0, 1, ... computed so far
  ft_a,         \* transforms: the buffer a before the call
  ft_omega,     \* transforms: omega
  ft_s,         \* transforms: two_adicity
  ft_lt,        \* transforms: log_num_threads
  ft_ser,       \* transforms: what SerialFFT left
  ft_par,       \* transforms: what ParallelFFT left
  a_buf,        \* ParallelFFT: the caller's buffer a
  tmp,          \* ParallelFFT: tmp[k], the state of the loop body for coset k
  ppc,          \* ParallelFFT: position of the calling thread
  shuffle_i,    \* ParallelFFT: index i of the interleave loop
  domain,       \* the constructed MixedRadixEvaluationDomain, or NoDomain
  dpc,          \* domain: "none", "ready", "evaluated", "interpolated", "aborted"
  poly,         \* domain: the coefficient vector P handed to FFT
  evals,        \* domain: the evaluations DoFFT left
  coeffs        \* domain: the coefficients DoIFFT left

sizeVars == <<entry, num_coeffs, spc, i_, r, two_adicity, best, size_out, factors, ret>>

permVars == <<pm_s, pm_t, pm_q, pm_n, pm_img>>

fftVars == <<ft_a, ft_omega, ft_s, ft_lt, ft_ser, ft_par>>

parVars == <<a_buf, tmp, ppc, shuffle_i>>

domVars == <<domain, dpc, poly, evals, coeffs>>

vars == <<field, sizeVars, permVars, fftVars, parVars, domVars>>

\* What a specification leaves of the parts of the program it does not run.
NoFactors == [two_adicity |-> 0, q_adicity |-> 0]

NoResult == [ok |-> FALSE, a |-> << >>]

IdleSize ==
  /\ entry = "none"
  /\ num_coeffs = 0
  /\ spc = "idle"
  /\ i_ = 0
  /\ r = 0
  /\ two_adicity = 0
  /\ best = 0
  /\ size_out = 0
  /\ factors = NoFactors
  /\ ret = FALSE

IdlePerm ==
  /\ pm_s = 0
  /\ pm_t = 0
  /\ pm_q = 2
  /\ pm_n = 0
  /\ pm_img = << >>

NoDomain == [size |-> 0]

IdleDomain ==
  /\ domain = NoDomain
  /\ dpc = "none"
  /\ poly = << >>
  /\ evals = << >>
  /\ coeffs = << >>

IdlePar ==
  /\ a_buf = << >>
  /\ tmp = << >>
  /\ ppc = "idle"
  /\ shuffle_i = 0

IdleFFT ==
  /\ ft_a = << >>
  /\ ft_omega = 1
  /\ ft_s = 0
  /\ ft_lt = 0
  /\ ft_ser = NoResult
  /\ ft_par = NoResult

(***************************************************************************)
(* Field arithmetic of F (collaborator): residues modulo f.p.              *)
(***************************************************************************)
FAdd(f, x, y) == (x + y) % f.p

FSub(f, x, y) == (x + f.p - y) % f.p

FMul(f, x, y) == (x * y) % f.p

RECURSIVE FPow(_, _, _)
FPow(f, x, e) ==
  IF e = 0
    THEN 1 % f.p
    ELSE LET h == FPow(f, x, e \div 2)
         IN  IF e % 2 = 0 THEN FMul(f, h, h) ELSE FMul(f, x, FMul(f, h, h))

FInv(f, x) == FPow(f, x, f.p - 2)

\* The buffer a holds a[0], ..., a[n-1] at positions 1 .. n of a sequence.
At(a, idx) == a[idx + 1]

Put(a, idx, v) == [a EXCEPT ![idx + 1] = v]

Zeros(n) == [k \in 1 .. n |-> 0]

(***************************************************************************)
(* Helpers of the collaborators.                                           *)
(***************************************************************************)
RECURSIVE ComputeAdicity(_, _)
ComputeAdicity(b, n) ==
  IF n > 0 /\ b > 1 /\ n % b = 0 THEN 1 + ComputeAdicity(b, n \div b) ELSE 0

\* F::Decompose(n, factors): n = q^q_adicity * 2^two_adicity within the bounds.
Decompose(f, n) ==
  LET qa == ComputeAdicity(f.q, n)
      ta == ComputeAdicity(2, n)
  IN  IF n = (f.q ^ qa) * (2 ^ ta) /\ ta <= f.T /\ qa <= f.A
        THEN [ok |-> TRUE, factors |-> [two_adicity |-> ta, q_adicity |-> qa]]
        ELSE [ok |-> FALSE, factors |-> NoFactors]

(***************************************************************************)
(* MaxDegreeForMixedRadixEvaluationDomain: the for loop declares its own   *)
(* i, so the body multiplies the loop counter and the outer i stays 1.     *)
(***************************************************************************)
RECURSIVE MaxDegreeLoop(_, _, _)
MaxDegreeLoop(f, inner, outer) ==
  IF inner <= f.A
    THEN MaxDegreeLoop(f, (((inner * f.q) % Word) + 1) % Word, outer)
    ELSE outer

MaxDegreeForMixedRadixEvaluationDomain(f) ==
  (MaxDegreeLoop(f, 0, 1) * (2 ^ f.T) + Word - 1) % Word

MaxDegree(f) == MaxDegreeForMixedRadixEvaluationDomain(f)

(***************************************************************************)
(* Sizing: IsValidNumCoeffs / Create -> ComputeSizeAndFactors ->           *)
(* BestMixedDomainSize.                                                    *)
(***************************************************************************)
\* IsValidNumCoeffs without a large subgroup root of unity: return false.
IsValidNoRoot ==
  /\ spc = "start"
  /\ entry = "IsValidNumCoeffs"
  /\ ~field.has
  /\ spc' = "done"
  /\ ret' = FALSE
  /\ UNCHANGED <<permVars, fftVars, parVars, domVars, field, entry, num_coeffs, i_, r, two_adicity, best, size_out, factors>>

\* Entering ComputeSizeAndFactors and BestMixedDomainSize: best = UINT64_MAX.
EnterBest ==
  /\ spc = "start"
  /\ entry = "IsValidNumCoeffs" => field.has
  /\ best' = UINT64_MAX
  /\ i_' = 0
  /\ spc' = "for"
  /\ UNCHANGED <<permVars, fftVars, parVars, domVars, field, entry, num_coeffs, r, two_adicity, size_out, factors, ret>>

\* for (i = 0; i <= kSmallSubgroupAdicity; ++i): r = q^i, two_adicity = 0.
ForHead ==
  /\ spc = "for"
  /\ i_ <= field.A
  /\ r' = (field.q ^ i_) % Word
  /\ two_adicity' = 0
  /\ spc' = "while"
  /\ UNCHANGED <<permVars, fftVars, parVars, domVars, field, entry, num_coeffs, i_, best, size_out, factors, ret>>

\* while (r < min_size) { r *= 2; ++two_adicity; }
WhileBody ==
  /\ spc = "while"
  /\ r < num_coeffs
  /\ r' = (r * 2) % Word
  /\ two_adicity' = (two_adicity + 1) % Word
  /\ UNCHANGED <<permVars, fftVars, parVars, domVars, field, entry, num_coeffs, spc, i_, best, size_out, factors, ret>>

\* Faulty variant of BestUpdate: the two-adicity bound is not tested.
BestUpdate_NoBound(b, rr, ta, f) == Min(b, rr)

BestUpdate(b, rr, ta, f) == IF ta <= f.T THEN Min(b, rr) ELSE b

\* if (two_adicity <= kTwoAdicity) best = min(best, r); ++i
WhileExit ==
  /\ spc = "while"
  /\ ~(r < num_coeffs)
  /\ best' = BestUpdate(best, r, two_adicity, field)
  /\ i_' = i_ + 1
  /\ spc' = "for"
  /\ UNCHANGED <<permVars, fftVars, parVars, domVars, field, entry, num_coeffs, r, two_adicity, size_out, factors, ret>>

\* return best
ForExit ==
  /\ spc = "for"
  /\ ~(i_ <= field.A)
  /\ spc' = "sized"
  /\ UNCHANGED <<permVars, fftVars, parVars, domVars, field, entry, num_coeffs, i_, r, two_adicity, best, size_out, factors, ret>>

SizeTooLarge(size, f) == size > (MaxDegree(f) + 1) % Word

\* ComputeSizeAndFactors after BestMixedDomainSize returned.
SizeAndFactors ==
  /\ spc = "sized"
  /\ IF SizeTooLarge(best, field)
       THEN /\ ret' = FALSE
            /\ UNCHANGED <<size_out, factors>>
       ELSE /\ size_out' = best
            /\ ret' = Decompose(field, best).ok
            /\ factors' = Decompose(field, best).factors
  /\ spc' = "computed"
  /\ UNCHANGED <<permVars, fftVars, parVars, domVars, field, entry, num_coeffs, i_, r, two_adicity, best>>

\* IsValidNumCoeffs returns what ComputeSizeAndFactors returned.
IsValidReturn ==
  /\ spc = "computed"
  /\ entry = "IsValidNumCoeffs"
  /\ spc' = "done"
  /\ UNCHANGED <<permVars, fftVars, parVars, domVars, field, entry, num_coeffs, i_, r, two_adicity, best, size_out, factors, ret>>

\* The canonical root of unity of order n: root^(N / n), N = q^A * 2^T.
GroupGen(f, n) == FPow(f, f.root, ((f.q ^ f.A) * (2 ^ f.T)) \div n)

\* UnivariateEvaluationDomain(size, log_size_of_group): the generator of the
\* group of order size, its inverse, the inverse of size, offset one.
NewDomain(f, size, log_size_of_group) ==
  [size |-> size,
   log_size_of_group |-> log_size_of_group,
   group_gen |-> GroupGen(f, size),
   group_gen_inv |-> FInv(f, GroupGen(f, size)),
   size_inv |-> FInv(f, size % f.p),
   offset |-> 1,
   offset_inv |-> 1]

\* new MixedRadixEvaluationDomain(size, factors.two_adicity)
Created(f, size, fs) == NewDomain(f, size, fs.two_adicity)

\* Create: CHECK(ComputeSizeAndFactors(...)), then the domain is constructed.
CreateReturn ==
  /\ spc = "computed"
  /\ entry = "Create"
  /\ spc' = IF ret THEN "constructed" ELSE "aborted"
  /\ domain' = IF ret THEN Created(field, size_out, factors) ELSE domain
  /\ dpc' = IF ret THEN "ready" ELSE dpc
  /\ UNCHANGED <<permVars, fftVars, parVars, poly, evals, coeffs, field, entry, num_coeffs, i_, r, two_adicity, best, size_out, factors, ret>>

InitSize ==
  /\ IdleDomain
  /\ IdlePerm
  /\ IdleFFT
  /\ IdlePar
  /\ field \in Fields
  /\ entry \in {"IsValidNumCoeffs", "Create"}
  /\ entry = "Create" => field.has
  /\ num_coeffs \in 0 .. Word - 1
  /\ spc = "start"
  /\ i_ = 0
  /\ r = 0
  /\ two_adicity = 0
  /\ best = 0
  /\ size_out = 0
  /\ factors = NoFactors
  /\ ret = FALSE

NextSize ==
  \/ IsValidNoRoot
  \/ EnterBest
  \/ ForHead
  \/ WhileBody
  \/ WhileExit
  \/ ForExit
  \/ SizeAndFactors
  \/ IsValidReturn
  \/ CreateReturn

SpecSize == InitSize /\ [][NextSize]_vars

\* A sequential program keeps executing its next statement.
FairSpecSize == InitSize /\ [][NextSize]_vars /\ WF_vars(NextSize)

(***************************************************************************)
(* MixedRadixFFTPermute.                                                   *)
(***************************************************************************)
\* for (j < two_adicity) { shift /= 2; res += (i % 2) * shift; i /= 2; }
RECURSIVE PermuteTwoLoop(_, _, _, _)
PermuteTwoLoop(cnt, shift, res, i) ==
  IF cnt = 0
    THEN [shift |-> shift, res |-> res, i |-> i]
    ELSE PermuteTwoLoop(cnt - 1, shift \div 2, res + (i % 2) * (shift \div 2), i \div 2)

\* Faulty variant of PermuteQLoop: res is advanced before shift is divided by q.
RECURSIVE PermuteQLoop_ShiftLate(_, _, _, _, _)
PermuteQLoop_ShiftLate(cnt, q, shift, res, i) ==
  IF cnt = 0
    THEN [shift |-> shift, res |-> res, i |-> i]
    ELSE PermuteQLoop_ShiftLate(cnt - 1, q, shift \div q, res + (i % q) * shift, i \div q)

\* for (j < q_adicity) { shift /= q; res += (i % q) * shift; i /= q; }
RECURSIVE PermuteQLoop(_, _, _, _, _)
PermuteQLoop(cnt, q, shift, res, i) ==
  IF cnt = 0
    THEN [shift |-> shift, res |-> res, i |-> i]
    ELSE PermuteQLoop(cnt - 1, q, shift \div q, res + (i % q) * (shift \div q), i \div q)

\* Faulty variant of MixedRadixFFTPermute: each digit group is reversed in its own
\* place (the binary digits stay the low digits of the result).
MixedRadixFFTPermute_GroupsInPlace(s, t, q, n, i) ==
  LET two == PermuteTwoLoop(s, 2 ^ s, 0, i)
  IN  two.res + (2 ^ s) * PermuteQLoop(t, q, q ^ t, 0, two.i).res

MixedRadixFFTPermute(s, t, q, n, i) ==
  LET two == PermuteTwoLoop(s, n, 0, i)
  IN  PermuteQLoop(t, q, two.shift, two.res, two.i).res

\* The small subgroup bases the permutation is tabulated for.
Bases == {2, 3, 4, 5}

InitPerm ==
  /\ IdleSize
  /\ IdleDomain
  /\ IdleFFT
  /\ IdlePar
  /\ field = F13
  /\ pm_s \in 0 .. MaxS
  /\ pm_t \in 0 .. MaxT
  /\ pm_q \in Bases
  /\ pm_n = (pm_q ^ pm_t) * (2 ^ pm_s)
  /\ pm_img = << >>

\* One more index of [0, n) is mapped.
PermuteNext ==
  /\ Len(pm_img) < pm_n
  /\ pm_img' = Append(pm_img, MixedRadixFFTPermute(pm_s, pm_t, pm_q, pm_n, Len(pm_img)))
  /\ UNCHANGED <<field, sizeVars, fftVars, parVars, domVars, pm_s, pm_t, pm_q, pm_n>>

NextPerm == PermuteNext

SpecPerm == InitPerm /\ [][NextPerm]_vars

PermDone == Len(pm_img) = pm_n

\* The image of index i in [0, n), once tabulated.
Img(i) == pm_img[i + 1]

\* C7: i -> MixedRadixFFTPermute(s, t, q, n, i) maps [0, n) into [0, n), and
\* hits every index of [0, n) (so, [0, n) being finite, exactly once).
C7_PermuteBijective ==
  /\ \A k \in 1 .. Len(pm_img) : pm_img[k] \in 0 .. pm_n - 1
  /\ PermDone => {pm_img[k] : k \in 1 .. pm_n} = 0 .. pm_n - 1

\* C7 witness: the permutation of [0, 6) for s = 1, t = 1, q = 3.
C7_Witness ==
  /\ PermDone
  /\ pm_s = 1 /\ pm_t = 1 /\ pm_q = 3
  /\ pm_img = <<0, 3, 1, 4, 2, 5>>

RECURSIVE PermuteCycle(_, _, _, _, _, _, _)
PermuteCycle(a, seen, k, i, s, t, q) ==
  IF i \in seen
    THEN [a |-> a, seen |-> seen]
    ELSE LET dest == MixedRadixFFTPermute(s, t, q, Len(a), i)
             swapped == Put(Put(a, dest, At(a, k)), k, At(a, dest))
         IN  PermuteCycle(swapped, seen \cup {i}, k, dest, s, t, q)

\* for (k = 0; k < n; ++k) follow the cycle that starts at k.
RECURSIVE ApplyPermutation(_, _, _, _, _, _)
ApplyPermutation(a, seen, k, s, t, q) ==
  IF k = Len(a)
    THEN a
    ELSE LET c == PermuteCycle(a, seen, k, k, s, t, q)
         IN  ApplyPermutation(c.a, c.seen, k + 1, s, t, q)

\* qth_roots[i] = omega_q^i for i < q.
QthRoots(f, omega_q) == [i \in 0 .. f.q - 1 |-> FPow(f, omega_q, i)]

\* terms[l - 1] = a[pos + l * m] * w_j^l for 1 <= l < q.
Terms(f, a, pos, m, w_j) ==
  [l \in 1 .. f.q - 1 |-> FMul(f, At(a, pos + l * m), FPow(f, w_j, l))]

\* The sum over l of terms[l - 1] * qth_roots[(i * l) % q].
RECURSIVE TermSum(_, _, _, _, _)
TermSum(f, terms, roots, i, l) ==
  IF l = f.q
    THEN 0
    ELSE FAdd(f, FMul(f, terms[l], roots[(i * l) % f.q]), TermSum(f, terms, roots, i, l + 1))

\* base_term is the reference const F& base_term = a[k + j]: it reads the
\* buffer as it is when output i is written (a0 is the buffer on entry to the
\* butterfly).
BaseTerm(a, a0, pos) == At(a, pos)

\* for (i = 0; i < q; ++i) { a.at(pos + i * m) = base_term; for l: += ...; }
RECURSIVE QOutputs(_, _, _, _, _, _, _, _)
QOutputs(f, a, a0, pos, m, terms, roots, i) ==
  IF i = f.q
    THEN a
    ELSE QOutputs(f,
                  Put(a, pos + i * m, FAdd(f, BaseTerm(a, a0, pos), TermSum(f, terms, roots, i, 1))),
                  a0, pos, m, terms, roots, i + 1)

\* One radix-q butterfly at pos = k + j with twiddle w_j.
QButterfly(f, a, pos, m, w_j, roots) ==
  QOutputs(f, a, a, pos, m, Terms(f, a, pos, m, w_j), roots, 0)

\* for (k = 0; k < n; k += q * m) for (j = 0; j < m; ++j), w_j = w_m^j.
RECURSIVE QPass(_, _, _, _, _, _, _)
QPass(f, a, m, w_m, roots, k, j) ==
  IF k >= Len(a)
    THEN a
    ELSE IF j = m
      THEN QPass(f, a, m, w_m, roots, k + f.q * m, 0)
      ELSE QPass(f, QButterfly(f, a, k + j, m, FPow(f, w_m, j), roots), m, w_m, roots, k, j + 1)

\* for (i = 0; i < q_adicity; ++i) { w_m = omega^(n / (q * m)); ...; m *= q; }
RECURSIVE QPasses(_, _, _, _, _, _)
QPasses(f, a, omega, roots, cnt, m) ==
  IF cnt = 0
    THEN a
    ELSE QPasses(f, QPass(f, a, m, FPow(f, omega, Len(a) \div (f.q * m)), roots, 0, 0),
                 omega, roots, cnt - 1, m * f.q)

\* The index whose low `bits` bits are those of i reversed.
RECURSIVE BitReverse(_, _)
BitReverse(i, bits) ==
  IF bits = 0 THEN 0 ELSE (i % 2) * (2 ^ (bits - 1)) + BitReverse(i \div 2, bits - 1)

\* UnivariateEvaluationDomain::SwapElements: the binary bit-reversal swap.
SwapElements(a, n, s) == [k \in 1 .. n |-> At(a, BitReverse(k - 1, s))]

\* UnivariateEvaluationDomain::ButterflyFnOutIn(lo, hi, root):
\* hi *= root; neg = lo - hi; lo += hi; hi = neg.
ButterflyFnOutIn(f, a, lo, hi, root) ==
  LET h == FMul(f, At(a, hi), root)
  IN  Put(Put(a, lo, FAdd(f, At(a, lo), h)), hi, FSub(f, At(a, lo), h))

\* for (k = 0; k < n; k += 2 * m) for (j = 0; j < m; ++j), w = w_m^j.
RECURSIVE TwoPass(_, _, _, _, _, _)
TwoPass(f, a, m, w_m, k, j) ==
  IF k >= Len(a)
    THEN a
    ELSE IF j = m
      THEN TwoPass(f, a, m, w_m, k + 2 * m, 0)
      ELSE TwoPass(f, ButterflyFnOutIn(f, a, k + j, k + m + j, FPow(f, w_m, j)), m, w_m, k, j + 1)

\* for (i = 0; i < two_adicity; ++i) { w_m = omega^(n / (2 * m)); ...; m *= 2; }
RECURSIVE TwoPasses(_, _, _, _, _)
TwoPasses(f, a, omega, cnt, m) ==
  IF cnt = 0
    THEN a
    ELSE TwoPasses(f, TwoPass(f, a, m, FPow(f, omega, Len(a) \div (2 * m)), 0, 0),
                   omega, cnt - 1, 2 * m)

\* CHECK_EQ(n_u64, q_part * two_part) of SerialFFT.
SerialCheck(f, n, s) == n = (f.q ^ ComputeAdicity(f.q, n)) * (2 ^ s)

\* SerialFFT(a, omega, two_adicity): ok is FALSE when the CHECK_EQ aborts.
SerialFFT(f, a, omega, s) ==
  LET n == Len(a)
      t == ComputeAdicity(f.q, n)
  IN  IF ~SerialCheck(f, n, s)
        THEN [ok |-> FALSE, a |-> a]
        ELSE IF t > 0
          THEN LET permuted == ApplyPermutation(a, {}, 0, s, t, f.q)
                   roots == QthRoots(f, FPow(f, omega, n \div f.q))
                   merged == QPasses(f, permuted, omega, roots, t, 1)
               IN  [ok |-> TRUE, a |-> TwoPasses(f, merged, omega, s, f.q ^ t)]
          ELSE [ok |-> TRUE, a |-> TwoPasses(f, SwapElements(a, n, s), omega, s, 1)]

\* The discrete Fourier transform in ascending-power order:
\* entry i is the sum over j of a[j] * omega^(i * j).
RECURSIVE DFTSum(_, _, _, _, _)
DFTSum(f, a, omega, i, j) ==
  IF j = Len(a)
    THEN 0
    ELSE FAdd(f, FMul(f, At(a, j), FPow(f, omega, (i * j) % (f.p - 1))), DFTSum(f, a, omega, i, j + 1))

DFT(f, a, omega) == [k \in 1 .. Len(a) |-> DFTSum(f, a, omega, k - 1, 0)]

(***************************************************************************)
(* ParallelFFT.  Worker k owns the record tmp[k]: its position pc, its     *)
(* coset buffer buf, the running twiddle elt and the loop counters i, c.   *)
(***************************************************************************)
\* tmp[k] = PolyOrEvals::Zero(coset_size - 1), elt = F::One().
WorkerInit(coset_size) ==
  [pc |-> "acc", buf |-> Zeros(coset_size), elt |-> 1, i |-> 0, c |-> 0, ok |-> TRUE]

\* One iteration of the inner loop over c (with the elt *= omega_k that ends
\* the loop over c when c was the last coset):
\* kth_poly_coeffs.at(i) += a[i + c * coset_size] * elt; elt *= omega_step.
Accumulate(f, a, omega, k, coset_size, num_threads, w) ==
  LET idx == w.i + w.c * coset_size
      sum == FAdd(f, At(w.buf, w.i), FMul(f, At(a, idx), w.elt))
      stepped == FMul(f, w.elt, FPow(f, omega, k * coset_size))
      last == w.c + 1 = num_threads
  IN  [w EXCEPT !.buf = Put(w.buf, w.i, sum),
                !.elt = IF last THEN FMul(f, stepped, FPow(f, omega, k)) ELSE stepped,
                !.c = IF last THEN 0 ELSE w.c + 1,
                !.i = IF last THEN w.i + 1 ELSE w.i,
                !.pc = IF last /\ w.i + 1 = coset_size THEN "fft" ELSE "acc"]

\* SerialFFT(kth_poly_coeffs, new_omega, new_two_adicity).
Transformed(w, sub) == [w EXCEPT !.buf = sub.a, !.ok = sub.ok, !.pc = "done"]

SubFFT(f, omega, coset_size, num_threads, w) ==
  Transformed(w, SerialFFT(f, w.buf, FPow(f, omega, num_threads), ComputeAdicity(2, coset_size)))

\* The next step of the loop body for coset k.
WorkerStep(f, a, omega, k, coset_size, num_threads, w) ==
  IF w.pc = "acc"
    THEN Accumulate(f, a, omega, k, coset_size, num_threads, w)
    ELSE SubFFT(f, omega, coset_size, num_threads, w)

\* The whole loop body for coset k.
RECURSIVE WorkerRun(_, _, _, _, _, _, _)
WorkerRun(f, a, omega, k, coset_size, num_threads, w) ==
  IF w.pc = "done"
    THEN w
    ELSE WorkerRun(f, a, omega, k, coset_size, num_threads,
                   WorkerStep(f, a, omega, k, coset_size, num_threads, w))

\* #pragma omp parallel for: the loop body for every coset k.
RECURSIVE WorkersRun(_, _, _, _, _, _, _)
WorkersRun(f, a, omega, coset_size, num_threads, tm, k) ==
  IF k = num_threads
    THEN tm
    ELSE WorkersRun(f, a, omega, coset_size, num_threads,
                    [tm EXCEPT ![k] = WorkerRun(f, a, omega, k, coset_size, num_threads, tm[k])],
                    k + 1)

\* a.at(i) = tmp[i % num_cosets][i / num_cosets].
Shuffled(tm, num_cosets, i) == At(tm[i % num_cosets].buf, i \div num_cosets)

\* for (i = 0; i < a.NumElements(); ++i) a.at(i) = tmp[i % num_cosets][i / num_cosets].
Interleaved(tm, n, num_cosets) ==
  [ok |-> \A k \in 0 .. num_cosets - 1 : tm[k].ok,
   a |-> [x \in 1 .. n |-> Shuffled(tm, num_cosets, x - 1)]]

\* CHECK_GE(two_adicity, log_num_threads) and CHECK_EQ(m % num_threads, 0).
ParallelCheck(n, s, log_num_threads) ==
  /\ s >= log_num_threads
  /\ n % (2 ^ log_num_threads) = 0

\* ParallelFFT(a, omega, two_adicity, log_num_threads): ok is FALSE when a
\* CHECK aborts.
ParallelFFT(f, a, omega, s, log_num_threads) ==
  LET n == Len(a)
      num_threads == 2 ^ log_num_threads
      coset_size == n \div num_threads
  IN  IF ~ParallelCheck(n, s, log_num_threads)
        THEN [ok |-> FALSE, a |-> a]
        ELSE Interleaved(WorkersRun(f, a, omega, coset_size, num_threads,
                                    [k \in 0 .. num_threads - 1 |-> WorkerInit(coset_size)], 0),
                         n, num_threads)

(***************************************************************************)
(* The two transforms applied to one buffer.                               *)
(***************************************************************************)
\* The fields whose transforms are computed.
FFTFields == {F7, F13, F11, F37}

\* x has multiplicative order n.
HasOrder(f, x, n) ==
  /\ FPow(f, x, n) = 1
  /\ \A d \in 1 .. n - 1 : FPow(f, x, d) # 1

Unit(n, j) == [k \in 1 .. n |-> IF k = j + 1 THEN 1 ELSE 0]

Ones(n) == [k \in 1 .. n |-> 1]

Ramp(f, n) == [k \in 1 .. n |-> k % f.p]

\* The input buffers: the unit vectors, the all-ones vector and 1, 2, ..., n.
Buffers(f, n) == {Unit(n, j) : j \in 0 .. n - 1} \cup {Ones(n), Ramp(f, n)}

InitFFT ==
  /\ IdleSize
  /\ IdleDomain
  /\ IdlePerm
  /\ IdlePar
  /\ field \in FFTFields
  /\ ft_s \in 0 .. field.T
  /\ ft_lt \in 0 .. ft_s
  /\ \E t \in 0 .. field.A :
       /\ ft_omega \in {x \in 1 .. field.p - 1 : HasOrder(field, x, (field.q ^ t) * (2 ^ ft_s))}
       /\ ft_a \in Buffers(field, (field.q ^ t) * (2 ^ ft_s))
  /\ ft_ser = NoResult
  /\ ft_par = NoResult

\* SerialFFT(a, omega, two_adicity) on a copy of the buffer.
RunSerial ==
  /\ ft_ser = NoResult
  /\ ft_ser' = SerialFFT(field, ft_a, ft_omega, ft_s)
  /\ UNCHANGED <<field, sizeVars, permVars, parVars, domVars, ft_a, ft_omega, ft_s, ft_lt, ft_par>>

\* ParallelFFT(a, omega, two_adicity, log_num_threads) on a copy of the buffer.
RunParallel ==
  /\ ft_par = NoResult
  /\ ft_par' = ParallelFFT(field, ft_a, ft_omega, ft_s, ft_lt)
  /\ UNCHANGED <<field, sizeVars, permVars, parVars, domVars, ft_a, ft_omega, ft_s, ft_lt, ft_ser>>

NextFFT ==
  \/ RunSerial
  \/ RunParallel

SpecFFT == InitFFT /\ [][NextFFT]_vars

\* C2 as stated: after SerialFFT(a, omega, s) entry i of the buffer is the sum
\* over j of a_old[j] * omega^(i * j).
C2_SerialFFTIsDFT_Original ==
  ft_ser # NoResult => ft_ser.a = DFT(field, ft_a, ft_omega)

\* C3 as stated: ParallelFFT(a, omega, s, log_num_threads) leaves the same
\* sequence of field elements as SerialFFT(a, omega, s).
C3_SerialParallelEqual_Original ==
  (ft_ser # NoResult /\ ft_par # NoResult) => ft_par.a = ft_ser.a

(***************************************************************************)
(* ParallelFFT with its workers interleaved: the loop body of coset k runs *)
(* one step at a time, in any order with the other cosets' loop bodies.    *)
(***************************************************************************)
NumThreads == 2 ^ ft_lt

CosetSize == Len(ft_a) \div NumThreads

\* The fields whose parallel transform is interleaved.
ParFields == {F7, F13}

InitPar ==
  /\ IdleSize
  /\ IdleDomain
  /\ IdlePerm
  /\ field \in ParFields
  /\ ft_s \in 0 .. field.T
  /\ ft_lt \in 0 .. ft_s
  /\ \E t \in 0 .. field.A :
       /\ ft_omega = GroupGen(field, (field.q ^ t) * (2 ^ ft_s))
       /\ ft_a \in {Ramp(field, (field.q ^ t) * (2 ^ ft_s)),
                    Unit((field.q ^ t) * (2 ^ ft_s), (field.q ^ t) * (2 ^ ft_s) - 1)}
  /\ ft_ser = NoResult
  /\ ft_par = NoResult
  /\ a_buf = ft_a
  /\ tmp = [k \in 0 .. NumThreads - 1 |-> WorkerInit(CosetSize)]
  /\ ppc = "workers"
  /\ shuffle_i = 0

\* The worker that runs iteration k of the parallel loop takes its next step.
WorkerAct(k) ==
  /\ ppc = "workers"
  /\ tmp[k].pc # "done"
  /\ tmp' = [tmp EXCEPT ![k] = WorkerStep(field, a_buf, ft_omega, k, CosetSize, NumThreads, tmp[k])]
  /\ UNCHANGED <<field, sizeVars, permVars, fftVars, domVars, a_buf, ppc, shuffle_i>>

\* Faulty variant of WorkersJoined: the loop is left as soon as one worker is done.
WorkersJoined_First(t) == \E k \in DOMAIN t : t[k].pc = "done"

\* The implicit barrier that ends #pragma omp parallel for.
WorkersJoined(t) == \A k \in DOMAIN t : t[k].pc = "done"

\* The calling thread passes the barrier.
Join ==
  /\ ppc = "workers"
  /\ WorkersJoined(tmp)
  /\ ppc' = "interleave"
  /\ UNCHANGED <<field, sizeVars, permVars, fftVars, domVars, a_buf, tmp, shuffle_i>>

\* a.at(i) = tmp[i % num_cosets][i / num_cosets]; ++i
Shuffle ==
  /\ ppc = "interleave"
  /\ shuffle_i < Len(a_buf)
  /\ a_buf' = Put(a_buf, shuffle_i, Shuffled(tmp, NumThreads, shuffle_i))
  /\ shuffle_i' = shuffle_i + 1
  /\ UNCHANGED <<field, sizeVars, permVars, fftVars, domVars, tmp, ppc>>

\* ParallelFFT returns.
ParReturn ==
  /\ ppc = "interleave"
  /\ shuffle_i = Len(a_buf)
  /\ ppc' = "done"
  /\ UNCHANGED <<field, sizeVars, permVars, fftVars, domVars, a_buf, tmp, shuffle_i>>

NextPar ==
  \/ \E k \in DOMAIN tmp : WorkerAct(k)
  \/ Join
  \/ Shuffle
  \/ ParReturn

SpecPar == InitPar /\ [][NextPar]_vars

\* Until the barrier the caller's buffer is the input; when ParallelFFT returns
\* it holds what the loop bodies run one after the other leave.
ParStateOK ==
  /\ ppc = "workers" => a_buf = ft_a
  /\ ppc = "done" => a_buf = ParallelFFT(field, ft_a, ft_omega, ft_s, ft_lt).a

\* A step that changes tmp[k] changes neither another tmp[j] nor a; a step
\* that changes a or advances the interleave index comes after every worker is
\* done, leaves tmp alone and writes a[i] = tmp[i mod p][i div p] at the
\* interleave index i, which it advances by one.
ParStepOK ==
  /\ \A k \in DOMAIN tmp :
       tmp'[k] # tmp[k] =>
         /\ ppc = "workers"
         /\ a_buf' = a_buf
         /\ \A j \in DOMAIN tmp : j # k => tmp'[j] = tmp[j]
  /\ (a_buf' # a_buf \/ shuffle_i' # shuffle_i) =>
       /\ \A k \in DOMAIN tmp : tmp[k].pc = "done"
       /\ tmp' = tmp
       /\ shuffle_i' = shuffle_i + 1
       /\ a_buf' = Put(a_buf, shuffle_i, Shuffled(tmp, NumThreads, shuffle_i))

\* C9: under every interleaving worker k writes only tmp[k], a is not written
\* before all workers are done, the interleave writes each index i of a once
\* with tmp[i mod p][i div p], and the final a does not depend on the
\* interleaving.
C9_WorkerIsolation == []ParStateOK /\ [][ParStepOK]_vars

\* C9 witness: ParallelFFT has returned from four workers on twelve elements.
C9_Witness ==
  /\ ppc = "done"
  /\ NumThreads = 4
  /\ Len(a_buf) = 12
  /\ a_buf # ft_a

(***************************************************************************)
(* The domain: Create, GetCoset, FFT -> DoFFT, IFFT -> DoIFFT, BestFFT.    *)
(***************************************************************************)
\* Largest num_coeffs a domain is requested for.
MaxCoeffs == 12

\* base::bits::Log2Floor of a positive count.
RECURSIVE Log2Floor(_)
Log2Floor(x) == IF x <= 1 THEN 0 ELSE 1 + Log2Floor(x \div 2)

\* Faulty variant of UseSerial: the comparison is the other way round.
UseSerial_Flipped(log_size_of_group, log_thread_nums) ==
  log_size_of_group >= log_thread_nums

\* if (this->log_size_of_group_ <= log_thread_nums)
UseSerial(log_size_of_group, log_thread_nums) ==
  log_size_of_group <= log_thread_nums

\* BestFFT(poly_or_evals, omega) with omp_get_max_threads() = thread_nums.
BestFFT(f, d, a, omega, thread_nums) ==
  IF UseSerial(d.log_size_of_group, Log2Floor(thread_nums))
    THEN SerialFFT(f, a, omega, d.log_size_of_group)
    ELSE ParallelFFT(f, a, omega, d.log_size_of_group, Log2Floor(thread_nums))

\* resize(size, F::Zero())
Resized(a, size) == [k \in 1 .. size |-> IF k <= Len(a) THEN a[k] ELSE 0]

\* Base::DistributePowers(evals, g): entry i is multiplied by g^i.
DistributePowers(f, a, g) == [k \in 1 .. Len(a) |-> FMul(f, a[k], FPow(f, g, k - 1))]

\* Base::DistributePowersAndMulByConst(poly, g, c): entry i is multiplied by c * g^i.
DistributePowersAndMulByConst(f, a, g, c) ==
  [k \in 1 .. Len(a) |-> FMul(f, a[k], FMul(f, c, FPow(f, g, k - 1)))]

\* RemoveHighDegreeZeros: the trailing zero coefficients are dropped.
RECURSIVE RemoveHighDegreeZeros(_)
RemoveHighDegreeZeros(a) ==
  IF Len(a) > 0 /\ a[Len(a)] = 0
    THEN RemoveHighDegreeZeros(SubSeq(a, 1, Len(a) - 1))
    ELSE a

\* DoFFT(evals): the buffer BestFFT is given.
FFTInput(f, d, a) ==
  Resized(IF d.offset # 1 THEN DistributePowers(f, a, d.offset) ELSE a, d.size)

\* DoFFT(evals).
DoFFT(f, d, a, thread_nums) == BestFFT(f, d, FFTInput(f, d, a), d.group_gen, thread_nums)

\* DoIFFT(poly) after BestFFT returned b.
Interpolated(f, d, b) ==
  RemoveHighDegreeZeros(
    IF d.offset = 1
      THEN [k \in 1 .. Len(b) |-> FMul(f, b[k], d.size_inv)]
      ELSE DistributePowersAndMulByConst(f, b, d.offset_inv, d.size_inv))

\* DoIFFT(poly).
DoIFFT(f, d, a, thread_nums) == BestFFT(f, d, Resized(a, d.size), d.group_gen_inv, thread_nums)

\* The dense coefficient vectors handed to FFT: no trailing zero, at most
\* size coefficients.
Polys(f, size) ==
  {<< >>} \cup UNION {{Unit(len, len - 1), Ones(len), Ramp(f, len)} : len \in 1 .. size}

\* The coset offsets.
Offsets(f) == {f.root, f.p - 1}

\* The caller found num_coeffs representable and calls Create.
CallCreate ==
  /\ spc = "done"
  /\ entry = "IsValidNumCoeffs"
  /\ ret = TRUE
  /\ entry' = "Create"
  /\ spc' = "start"
  /\ UNCHANGED <<field, permVars, fftVars, parVars, domVars, num_coeffs, i_, r, two_adicity, best, size_out, factors, ret>>

\* GetCoset(offset): the domain with a coset offset.
GetCoset ==
  /\ dpc = "ready"
  /\ domain.offset = 1
  /\ \E g \in Offsets(field) :
       domain' = [domain EXCEPT !.offset = g, !.offset_inv = FInv(field, g)]
  /\ UNCHANGED <<field, sizeVars, permVars, fftVars, parVars, dpc, poly, evals, coeffs>>

\* What a transform leaves in the domain's state, or the abort of a CHECK.
Landed(res, pcOK) == IF res.ok THEN pcOK ELSE "aborted"

\* FFT(P) for a dense P.
CallFFT ==
  /\ dpc = "ready"
  /\ \E P \in Polys(field, domain.size), thread_nums \in 1 .. MaxThreads :
       /\ poly' = P
       /\ evals' = DoFFT(field, domain, P, thread_nums).a
       /\ dpc' = Landed(DoFFT(field, domain, P, thread_nums), "evaluated")
  /\ UNCHANGED <<field, sizeVars, permVars, fftVars, parVars, domain, coeffs>>

\* IFFT of the evaluations FFT returned.
CallIFFT ==
  /\ dpc = "evaluated"
  /\ \E thread_nums \in 1 .. MaxThreads :
       /\ coeffs' = Interpolated(field, domain, DoIFFT(field, domain, evals, thread_nums).a)
       /\ dpc' = Landed(DoIFFT(field, domain, evals, thread_nums), "interpolated")
  /\ UNCHANGED <<field, sizeVars, permVars, fftVars, parVars, domain, poly, evals>>

InitDomain ==
  /\ IdlePerm
  /\ IdleFFT
  /\ IdlePar
  /\ IdleDomain
  /\ field \in Fields
  /\ entry = "IsValidNumCoeffs"
  /\ num_coeffs \in 0 .. MaxCoeffs
  /\ spc = "start"
  /\ i_ = 0
  /\ r = 0
  /\ two_adicity = 0
  /\ best = 0
  /\ size_out = 0
  /\ factors = NoFactors
  /\ ret = FALSE

NextDomain ==
  \/ NextSize
  \/ CallCreate
  \/ GetCoset
  \/ CallFFT
  \/ CallIFFT

SpecDomain == InitDomain /\ [][NextDomain]_vars

\* C1 as stated: DoIFFT after DoFFT gives back the coefficient vector P.
C1_RoundTrip_Original == dpc = "interpolated" => coeffs = poly

\* C8: no CHECK of BestFFT's callees fails in DoFFT or DoIFFT, for a domain
\* built by Create from a representable num_coeffs, whatever worker count
\* the environment reports.
C8_NoAbort ==
  /\ dpc # "aborted"
  /\ dpc = "ready" =>
       \A thread_nums \in 1 .. MaxThreads, P \in Polys(field, domain.size) :
         LET lt == Log2Floor(thread_nums)
             n == Len(FFTInput(field, domain, P))
         IN  IF UseSerial(domain.log_size_of_group, lt)
               THEN SerialCheck(field, n, domain.log_size_of_group)
               ELSE /\ ParallelCheck(n, domain.log_size_of_group, lt)
                    /\ SerialCheck(field, n \div (2 ^ lt), ComputeAdicity(2, n \div (2 ^ lt)))

\* C8 witness: DoIFFT returned from a mixed-size domain (size 6) whose forward
\* transform took the parallel path.
C8_Witness ==
  /\ dpc = "interpolated"
  /\ domain.size = 6
  /\ domain.offset # 1

(***************************************************************************)
(* Claims about the sizing code.                                           *)
(***************************************************************************)
\* The admissible sizes q^i * 2^j, i <= kSmallSubgroupAdicity, j <= kTwoAdicity,
\* that are >= m.
Admissible(f, m) ==
  {x \in {(f.q ^ i) * (2 ^ j) : i \in 0 .. f.A, j \in 0 .. f.T} : x >= m}

SetMin(S) == CHOOSE x \in S : \A y \in S : x <= y

BestReturned == spc \in {"sized", "computed", "done", "constructed", "aborted"} /\ best # 0

\* C4: whenever some admissible size q^i * 2^j (i <= kSmallSubgroupAdicity,
\* j <= kTwoAdicity) is >= min_size, the doubling loop never wraps and
\* BestMixedDomainSize returns the minimum of the admissible sizes >= min_size.
C4_SizeSelectionMinimal ==
  Admissible(field, num_coeffs) # {} =>
    /\ (spc = "while" /\ r < num_coeffs) => r > 0 /\ r * 2 < Word
    /\ BestReturned => best = SetMin(Admissible(field, num_coeffs))

\* C4 witness: BestMixedDomainSize has returned a mixed size (3 * 2^j) that is
\* smaller than the next power of two.
C4_Witness ==
  /\ spc = "sized"
  /\ field = F73
  /\ num_coeffs = 5
  /\ best = 6

\* C5 as stated: in scenario A (kTwoAdicity 3, base 3, kSmallSubgroupAdicity 1,
\* default MaxDegree) IsValidNumCoeffs(10) returns true and the size selected
\* is 24.
C5_ScenarioA_Original ==
  (field = F73 /\ entry = "IsValidNumCoeffs" /\ num_coeffs = 10 /\ spc = "done")
    => (ret = TRUE /\ best = 24)

\* C6 as stated: for every num_coeffs > MaxDegree + 1 over the whole word
\* range, IsValidNumCoeffs terminates and returns false.
C6_RejectsLarge_Original ==
  (entry = "IsValidNumCoeffs" /\ spc = "start" /\ num_coeffs > MaxDegree(field) + 1)
    ~> (spc = "done" /\ ret = FALSE)

====
